---- MODULE Spec2Model ----
(***************************************************************************)
(* Model of the vesuvius multiscale zarr library: PapyrusImage and         *)
(* PapyrusVolume (build of the pyramid store, opening a handle, indexed    *)
(* reads) and the slice helpers of utils.py.                               *)
(*                                                                         *)
(* One destination path is modelled.  The store at that path is a group    *)
(* with an attribute dictionary and a set of named arrays; arrays are      *)
(* keyed by their level (0 is "image"/"volume", k is "..._downsampled{k}").*)
(***************************************************************************)
EXTENDS Integers, Sequences, FiniteSets, TLC

VARIABLES
    store,    \* the zarr store at zarrpath, or NoStore when the path does not exist
    b,        \* the running build call: its position and local variables
    berr,     \* outcome of the last build call
    handle,   \* the PapyrusImage / PapyrusVolume object after __init__
    req,      \* the key of the last __getitem__ call
    res       \* what the last __getitem__ call did

vars == <<store, b, berr, handle, req, res>>

----------------------------------------------------------------------------
(* Bounds of the model *)

\* slice files of a tiff directory are numbered within 0..MaxZ
MaxZ == 2
\* the largest source extent is 2^MaxDimExp
MaxDimExp == 21

----------------------------------------------------------------------------
(* Python values *)

CHUNK_SIZE == 1024

\* Optional values: None, or a one-element tuple holding the value
None == <<>>
Some(v) == <<v>>
Val(o) == o[1]

\* Selectors of a key: an int, or slice(start, stop, step) with optional parts
IntSel(i) == [t |-> "int", i |-> i, start |-> None, stop |-> None, step |-> None]
Slice(start, stop, step) == [t |-> "slice", i |-> 0, start |-> start, stop |-> stop, step |-> step]
IsInt(s) == s.t = "int"

Max2(x, y) == IF x >= y THEN x ELSE y
Min2(x, y) == IF x <= y THEN x ELSE y

RECURSIVE Pow2(_)
Pow2(n) == IF n <= 0 THEN 1 ELSE 2 * Pow2(n - 1)

SetMin(S) == CHOOSE x \in S : \A y \in S : x <= y
SetMax(S) == CHOOSE x \in S : \A y \in S : x >= y

----------------------------------------------------------------------------
(* Cropping: img_data[xslice, yslice] with xslice = slice(xmin, xmax, None) *)

\* a bound of a Python slice, normalised against an axis of length n
SliceBound(o, n, dflt) ==
    IF o = None THEN dflt
    ELSE IF Val(o) < 0 THEN Max2(Val(o) + n, 0)
    ELSE Min2(Val(o), n)

\* lims is None or a pair <<min, max>> of optional ints
CropLen(n, lims) ==
    IF lims = None THEN n
    ELSE Max2(0, SliceBound(lims[2], n, n) - SliceBound(lims[1], n, 0))

----------------------------------------------------------------------------
(* scale_levels as the builders compute it *)

\* ceil(log2(s / c)) for 1 <= s <= c: zero or negative
RECURSIVE CeilLog2Down(_, _)
CeilLog2Down(s, c) == IF 2 * s <= c THEN CeilLog2Down(2 * s, c) - 1 ELSE 0

\* ceil(log2(s / c)) for s > c
RECURSIVE CeilLog2Up(_, _)
CeilLog2Up(s, c) == IF s <= c THEN 0 ELSE 1 + CeilLog2Up(s, 2 * c)

\* np.ceil(np.log2(s / (c // 1))), s >= 1
CeilLog2Ratio(s, c) == IF s <= c THEN CeilLog2Down(s, c) ELSE CeilLog2Up(s, c)

\* int(max(ceil(log2(shape[0] / chunk)), ceil(log2(shape[1] / chunk)))), then min(10, .)
ComputeScaleLevels(shape, chunk) ==
    Min2(10, Max2(CeilLog2Ratio(shape[1], chunk), CeilLog2Ratio(shape[2], chunk)))

----------------------------------------------------------------------------
(* The store *)

NoStore == [exists |-> FALSE, attrs |-> <<>>, arrays |-> <<>>]

\* mutation: the multiscale attribute is written when the group is created
EmptyStore_attr_first ==
    [exists |-> TRUE, attrs |-> ("multiscale" :> TRUE), arrays |-> <<>>]

\* open_store + zarr.group(store, overwrite=True): an empty root group
EmptyStore == [exists |-> TRUE, attrs |-> <<>>, arrays |-> <<>>]

\* One named array of the group.  base: "image" or "volume", the stem of its
\* name; src: the level its data was taken from
\* (-1: the source files); scale: the exponent of the reduction applied to
\* that data; xy: the in-plane shape of the data before the reduction;
\* len: its number of z planes; written: how many of them are written.
Array(base, src, scale, xy, len, written) ==
    [base |-> base, src |-> src, scale |-> scale, xy |-> xy, len |-> len,
     written |-> written]

SetAttr(s, k, v) == [s EXCEPT !.attrs = (k :> v) @@ s.attrs]
PutArray(s, lvl, a) == [s EXCEPT !.arrays = (lvl :> a) @@ s.arrays]

HasAttr(s, k) == s.exists /\ k \in DOMAIN s.attrs
HasArray(s, lvl) == s.exists /\ lvl \in DOMAIN s.arrays

----------------------------------------------------------------------------
(* Inputs of a build.  A build call is made while no handle is open, as in  *)
(* __init__, which builds first and opens afterwards.                      *)

XDims == {100, 1025, 4096, Pow2(MaxDimExp)}
YDims == {100, 4096}
XLims == {None, <<Some(0), Some(512)>>, <<None, Some(1024)>>}
YLims == {None, <<Some(-1024), None>>}
ZLims == {None, <<Some(0), Some(MaxZ + 1)>>, <<None, None>>, <<Some(1), None>>}
FileSets == SUBSET (0..MaxZ)

Idle == [pc |-> "idle", kind |-> "none", multiscale |-> FALSE, shape |-> <<>>,
         zlen |-> 0, scale_levels |-> 0, scale |-> 0, z |-> 0,
         files |-> {}, zlims |-> None]

\* the locals of a build call that passed its checks
Started(kind, multiscale, shape, zlen, files, zlims) ==
    [pc |-> "open", kind |-> kind, multiscale |-> multiscale, shape |-> shape,
     zlen |-> zlen, scale_levels |-> 0, scale |-> 0, z |-> 0,
     files |-> files, zlims |-> zlims]

\* how a build call ended: the exception raised (or "ok"), the slice index an
\* exception message names, and the directory listing and zlims it was given
Outcome(kind, z, files, zlims) ==
    [kind |-> kind, z |-> z, files |-> files, zlims |-> zlims]

Running == Outcome("running", -1, {}, None)

----------------------------------------------------------------------------
\* mutation: the os.path.exists check is dropped
ImageBuildBegin_overwrite ==
    /\ b.pc = "idle"
    /\ ~handle.open
    /\ UNCHANGED <<store, handle, req, res>>
    /\ \E multiscale \in BOOLEAN :
          /\ b' = Started("image", multiscale, <<100, 100>>, 1, {}, None)
          /\ berr' = Running

(* PapyrusImage.build_from_image, lines 76-100: the existence check,       *)
(* loading, casting and cropping                                           *)
ImageBuildBegin ==
    /\ b.pc = "idle"
    /\ ~handle.open
    /\ UNCHANGED <<store, handle, req, res>>
    /\ IF store.exists
       THEN /\ berr' = Outcome("AlreadyExists", -1, {}, None)
            /\ b' = Idle
       ELSE \E n0 \in XDims, n1 \in YDims, xlims \in XLims, ylims \in YLims,
               multiscale \in BOOLEAN :
              /\ b' = Started("image", multiscale,
                              <<CropLen(n0, xlims), CropLen(n1, ylims)>>, 1, {}, None)
              /\ berr' = Running

----------------------------------------------------------------------------
(* PapyrusVolume.build_from_tiffdir, lines 85-117 (zstride is left at its  *)
(* default None, as PapyrusVolume.__init__ always does)                    *)

\* lines 98-104: the exception raised while computing zrange, or "none".
\* min()/max() of an empty listing raise ValueError; range() accepts no
\* keyword argument, so range(zstart, zstop, step=zstride) raises TypeError.
ZRangeError(files, zlims) ==
    IF zlims = None
    THEN IF files = {} THEN "ValueError" ELSE "none"
    ELSE IF zlims[2] = None /\ files = {} THEN "ValueError" ELSE "TypeError"

\* line 99: np.arange(min(imgfiles), max(imgfiles) + 1, step=None)
ZRange(files) == SetMin(files)..SetMax(files)

VolumeBuildBegin ==
    /\ b.pc = "idle"
    /\ ~handle.open
    /\ UNCHANGED <<store, handle, req, res>>
    /\ IF store.exists
       THEN /\ berr' = Outcome("AlreadyExists", -1, {}, None)
            /\ b' = Idle
       ELSE \E files \in FileSets, zlims \in ZLims, n0 \in XDims, n1 \in YDims,
               xlims \in XLims, ylims \in YLims, multiscale \in BOOLEAN :
              IF ZRangeError(files, zlims) # "none"
              THEN /\ berr' = Outcome(ZRangeError(files, zlims), -1, files, zlims)
                   /\ b' = Idle
              ELSE LET missing == {z \in ZRange(files) : z \notin files} IN
                   IF missing # {}
                   THEN /\ berr' = Outcome("MissingImageFile", SetMin(missing), files, zlims)
                        /\ b' = Idle
                   ELSE /\ b' = Started("volume", multiscale,
                                        <<CropLen(n0, xlims), CropLen(n1, ylims)>>,
                                        Cardinality(ZRange(files)), files, zlims)
                        /\ berr' = Running

----------------------------------------------------------------------------
(* The steps shared by both builders *)

\* image.py 101-102, volume.py 119-120: open_store creates the SQLite file
BuildOpenStore ==
    /\ b.pc = "open"
    /\ store' = EmptyStore
    /\ b' = [b EXCEPT !.pc = "level0"]
    /\ UNCHANGED <<berr, handle, req, res>>

\* image.py 103-110: root.array(name="image", data=img_data)
\* volume.py 121-134: one pass of the loop over zrange; the first pass
\* creates the "volume" array with root.zeros
WriteLevel0 ==
    /\ b.pc = "level0"
    /\ LET written == b.z + 1
           done == written = b.zlen
       IN /\ store' = PutArray(store, 0, Array(b.kind, -1, 0, b.shape, b.zlen, written))
          /\ b' = [b EXCEPT !.z = IF done THEN 0 ELSE written,
                            !.pc = IF done THEN "attr_multiscale" ELSE "level0",
                            !.files = IF done THEN {} ELSE @,
                            !.zlims = IF done THEN None ELSE @]
    /\ UNCHANGED <<berr, handle, req, res>>

\* image.py 113, volume.py 143: root.attrs["multiscale"] = multiscale
SetMultiscale ==
    /\ b.pc = "attr_multiscale"
    /\ store' = SetAttr(store, "multiscale", b.multiscale)
    /\ b' = [b EXCEPT !.pc = IF b.multiscale THEN "attr_scale_levels" ELSE "close"]
    /\ UNCHANGED <<berr, handle, req, res>>

\* image.py 115-120, volume.py 145-150
SetScaleLevels ==
    /\ b.pc = "attr_scale_levels"
    /\ LET scale_levels == ComputeScaleLevels(b.shape, CHUNK_SIZE)
       IN /\ store' = SetAttr(store, "scale_levels", scale_levels)
          /\ b' = [b EXCEPT !.scale_levels = scale_levels, !.scale = 1, !.z = 0,
                            !.pc = IF 1 <= scale_levels THEN "levels" ELSE "close"]
    /\ UNCHANGED <<berr, handle, req, res>>

\* volume.py 153: len(np.arange(len(zrange))[::2 ** scale])
DsLen(zlen, scale) == (zlen + Pow2(scale) - 1) \div Pow2(scale)

\* the level the resampled data is taken from: img_data (image.py 126-127)
\* is the level-0 data, volume[:,:,old_zindex] (volume.py 156) reads level 0
ResampleSource(scale) == 0

\* image.py 122-136: rescale img_data by 1 / 2**scale and store it as
\* image_downsampled{scale}.  volume.py 152-169: one pass of the inner loop;
\* the first pass creates volume_downsampled{scale} with root.zeros
WriteLevel ==
    /\ b.pc = "levels"
    /\ LET len == IF b.kind = "volume" THEN DsLen(b.zlen, b.scale) ELSE 1
           written == b.z + 1
           done == written = len
           last == b.scale = b.scale_levels
       IN /\ store' = PutArray(store, b.scale,
                               Array(b.kind, ResampleSource(b.scale), b.scale, b.shape, len, written))
          /\ b' = [b EXCEPT !.z = IF done THEN 0 ELSE written,
                            !.scale = IF done THEN @ + 1 ELSE @,
                            !.pc = IF done /\ last THEN "close" ELSE "levels"]
    /\ UNCHANGED <<berr, handle, req, res>>

\* image.py 137, volume.py 171: store.close()
BuildClose ==
    /\ b.pc = "close"
    /\ b' = Idle
    /\ berr' = Outcome("ok", -1, {}, None)
    /\ UNCHANGED <<store, handle, req, res>>

\* Neither builder catches anything: an exception of a collaborator (decoding,
\* resampling, the store) or the end of the process leaves the store as it is
Interrupt ==
    /\ b.pc # "idle"
    /\ b' = Idle
    /\ berr' = Outcome("Interrupted", -1, {}, None)
    /\ UNCHANGED <<store, handle, req, res>>

Build ==
    \/ ImageBuildBegin
    \/ VolumeBuildBegin
    \/ BuildOpenStore
    \/ WriteLevel0
    \/ SetMultiscale
    \/ SetScaleLevels
    \/ WriteLevel
    \/ BuildClose
    \/ Interrupt

----------------------------------------------------------------------------
(* Opening a handle: PapyrusImage.__init__ / PapyrusVolume.__init__ with    *)
(* no source path (image.py 19-30, volume.py 17-28)                        *)

NoHandle == [open |-> FALSE, err |-> "none", kind |-> "none", multiscale |-> FALSE,
             shape |-> <<>>, scale_levels |-> 0]

FailedHandle(err) == [NoHandle EXCEPT !.err = err]

\* self.zarr.image.shape / self.zarr.volume.shape
Level0Shape(s) ==
    IF s.arrays[0].base = "image" THEN s.arrays[0].xy
    ELSE Append(s.arrays[0].xy, s.arrays[0].len)

\* the object __init__ leaves behind, or the exception it raises
LoadHandle(s, cls) ==
    IF ~s.exists THEN FailedHandle("DoesNotExist")
    ELSE IF "multiscale" \notin DOMAIN s.attrs THEN FailedHandle("KeyError")
    ELSE IF 0 \notin DOMAIN s.arrays \/ s.arrays[0].base # cls
         THEN FailedHandle("AttributeError")
    ELSE IF s.attrs["multiscale"] /\ "scale_levels" \notin DOMAIN s.attrs
         THEN FailedHandle("KeyError")
    ELSE [open |-> TRUE, err |-> "none", kind |-> cls,
          multiscale |-> s.attrs["multiscale"],
          shape |-> Level0Shape(s),
          scale_levels |-> IF s.attrs["multiscale"] THEN s.attrs["scale_levels"] ELSE 0]

NoResult == [status |-> "none", err |-> "none", level |-> -1, sel |-> <<>>,
             auto |-> None, bypass |-> FALSE]

OpenHandle ==
    /\ b.pc = "idle"
    /\ \E cls \in {"image", "volume"} : handle' = LoadHandle(store, cls)
    /\ req' = <<>>
    /\ res' = NoResult
    /\ UNCHANGED <<store, b, berr>>

\* image.py 65-66, volume.py 64-65
CloseHandle ==
    /\ handle.open
    /\ handle' = NoHandle
    /\ req' = <<>>
    /\ res' = NoResult
    /\ UNCHANGED <<store, b, berr>>

----------------------------------------------------------------------------
(* utils.py *)

\* get_slice_size raises on a stepped slice
SliceSizeRaises(item) == item.step # None

\* get_slice_size(item, dimsize), lines 81-83
get_slice_size(item, dimsize) ==
    LET start == IF item.start = None THEN 0 ELSE Val(item.start)
        stop == IF item.stop = None THEN dimsize ELSE Val(item.stop)
    IN stop - start

\* mutation: the step check of downsample_slice is dropped
DownsampleRaises_never(item, scale) == FALSE

\* downsample_slice raises on a stepped slice, but only past its scale == 0 return
DownsampleRaises(item, scale) == scale # 0 /\ ~IsInt(item) /\ item.step # None

\* mutation: an int index is returned as it is instead of being divided
downsample_slice_int_kept(item, scale) ==
    IF scale = 0 \/ IsInt(item) THEN item
    ELSE Slice(IF item.start = None THEN None ELSE Some(Val(item.start) \div Pow2(scale)),
               IF item.stop = None THEN None ELSE Some(Val(item.stop) \div Pow2(scale)),
               None)

\* downsample_slice(item, scale), lines 63-73 (// is floor division, as \div)
downsample_slice(item, scale) ==
    IF scale = 0 THEN item
    ELSE IF IsInt(item) THEN IntSel(item.i \div Pow2(scale))
    ELSE Slice(IF item.start = None THEN None ELSE Some(Val(item.start) \div Pow2(scale)),
               IF item.stop = None THEN None ELSE Some(Val(item.stop) \div Pow2(scale)),
               None)

----------------------------------------------------------------------------
(* __getitem__ (image.py 32-63, volume.py 30-62) *)

Failed(err, auto) ==
    [status |-> "error", err |-> err, level |-> -1, sel |-> <<>>, auto |-> auto,
     bypass |-> FALSE]

\* self.zarr.<name>.__getitem__(sel): the named array must be in the group
ReadArray(s, level, sel, auto, bypass) ==
    IF level \in DOMAIN s.arrays
    THEN [status |-> "read", err |-> "none", level |-> level, sel |-> sel,
          auto |-> auto, bypass |-> bypass]
    ELSE [status |-> "error", err |-> "AttributeError", level |-> level, sel |-> <<>>,
          auto |-> auto, bypass |-> bypass]

\* image.py 44-46, volume.py 43-45: the loop choosing the scale
RECURSIVE AutoScale(_, _, _)
AutoScale(scale, scale_size, scale_levels) ==
    IF scale < scale_levels /\ scale_size > CHUNK_SIZE \div 4
    THEN AutoScale(scale + 1, scale_size \div 2, scale_levels)
    ELSE scale

RECURSIVE MaxSliceSize(_, _, _)
MaxSliceSize(sels, shape, n) ==
    IF n = 1 THEN get_slice_size(sels[1], shape[1])
    ELSE Max2(MaxSliceSize(sels, shape, n - 1), get_slice_size(sels[n], shape[n]))

\* mutation: scale >= self.scale_levels instead of scale > self.scale_levels
LevelError_off_by_one(h, scale) ==
    IF ~IsInt(scale) THEN "NotInteger"
    ELSE IF scale.i < 0 THEN "NegativeLevel"
    ELSE IF scale.i >= h.scale_levels THEN "ExceedsLevels"
    ELSE "none"

\* image.py 54-59, volume.py 52-57: the exception the checks on scale raise
LevelError(h, scale) ==
    IF ~IsInt(scale) THEN "NotInteger"
    ELSE IF scale.i < 0 THEN "NegativeLevel"
    ELSE IF scale.i > h.scale_levels THEN "ExceedsLevels"
    ELSE "none"

\* image.py 54-63, volume.py 52-62: the checks on scale, then the rebased read
ReadAtScale(h, s, sels, scale, auto) ==
    IF LevelError(h, scale) # "none" THEN Failed(LevelError(h, scale), auto)
    ELSE IF \E d \in 1..Len(sels) : DownsampleRaises(sels[d], scale.i)
         THEN Failed("StepSlice", auto)
    ELSE ReadArray(s, scale.i,
                   [d \in 1..Len(sels) |-> downsample_slice(sels[d], scale.i)],
                   auto, FALSE)

\* mutation: "and" instead of "or"
HasScalar_all(key, rank) == \A d \in 1..rank : IsInt(key[d])

\* image.py 37, volume.py 35: isinstance(x, int) or isinstance(y, int) ...
HasScalar(key, rank) == \E d \in 1..rank : IsInt(key[d])

GetItemResult(h, s, key) ==
    LET rank == Len(h.shape) IN
    IF Len(key) = rank
    THEN IF HasScalar(key, rank)
         THEN ReadArray(s, 0, key, None, TRUE)
         ELSE IF \E d \in 1..rank : SliceSizeRaises(key[d])
              THEN Failed("StepSlice", None)
              ELSE LET scale == AutoScale(0, MaxSliceSize(key, h.shape, rank),
                                          h.scale_levels)
                   IN ReadAtScale(h, s, key, IntSel(scale), Some(scale))
    ELSE IF Len(key) = rank + 1
         THEN ReadAtScale(h, s, SubSeq(key, 1, rank), key[rank + 1], None)
         ELSE Failed("TooManyIndices", None)

\* The keys tried
FullSlice == Slice(None, None, None)
XSels == { FullSlice,
           Slice(Some(0), Some(256), None),
           Slice(Some(0), Some(257), None),
           Slice(Some(0), Some(4000), None),
           Slice(Some(-7), None, None),
           Slice(Some(0), Some(100), Some(2)),
           IntSel(5) }
YSels == { FullSlice,
           Slice(Some(3), Some(1030), None),
           Slice(None, Some(100), Some(2)),
           IntSel(700) }
ZSels == { FullSlice, Slice(None, Some(3), Some(2)), IntSel(1) }
ScaleSels(h) ==
    {IntSel(l) : l \in {-1, 0, 1, 2, h.scale_levels, h.scale_levels + 1}}
        \cup {FullSlice}

Keys(h) ==
    LET plain == IF h.kind = "image"
                 THEN {<<x, y>> : x \in XSels, y \in YSels}
                 ELSE {<<x, y, z>> : x \in XSels, y \in YSels, z \in ZSels}
    IN plain
       \cup {Append(k, l) : k \in plain, l \in ScaleSels(h)}
       \cup {<<FullSlice, FullSlice, FullSlice, IntSel(0), IntSel(0)>>}

GetItem ==
    /\ handle.open
    /\ res.status = "none"
    /\ \E key \in Keys(handle) :
         /\ req' = key
         /\ res' = GetItemResult(handle, store, key)
    /\ UNCHANGED <<store, b, berr, handle>>

\* the call returns (or its exception has propagated): the handle is ready
\* for the next call
GetItemReturn ==
    /\ res.status # "none"
    /\ req' = <<>>
    /\ res' = NoResult
    /\ UNCHANGED <<store, b, berr, handle>>

----------------------------------------------------------------------------
Init ==
    /\ store = NoStore
    /\ b = Idle
    /\ berr = Outcome("none", -1, {}, None)
    /\ handle = NoHandle
    /\ req = <<>>
    /\ res = NoResult

Next ==
    \/ Build
    \/ OpenHandle
    \/ CloseHandle
    \/ GetItem
    \/ GetItemReturn

Spec == Init /\ [][Next]_vars

----------------------------------------------------------------------------
(* Properties *)

Level0XY == store.arrays[0].xy
StoredScaleLevels == store.attrs["scale_levels"]

\* C1: the scale_levels value stored on the destination is within 0..10, and
\* is 0 whenever both spatial dimensions of the cropped level-0 data are at
\* most the chunk size.
C1_ScaleLevelsRange ==
    HasAttr(store, "scale_levels") =>
        /\ 0 <= StoredScaleLevels
        /\ StoredScaleLevels <= 10
        /\ (Level0XY[1] <= CHUNK_SIZE /\ Level0XY[2] <= CHUNK_SIZE
               => StoredScaleLevels = 0)

ArrayComplete(lvl) == HasArray(store, lvl) /\ store.arrays[lvl].written = store.arrays[lvl].len

\* C2 (as stated): in every reachable state of a build, a store that carries
\* both the multiscale and the scale_levels attribute already contains every
\* level array 0..scale_levels.
C2_AttrsMarkComplete ==
    (HasAttr(store, "multiscale") /\ HasAttr(store, "scale_levels")) =>
        \A k \in 0..StoredScaleLevels : HasArray(store, k)

\* C2 (amended): the attributes are written after level 0 and before the
\* downsampled levels.  A store that carries the multiscale attribute holds
\* the complete level-0 array; scale_levels is only present together with
\* multiscale = true; and the levels 1..scale_levels are all there once the
\* build has reached its end.
C2_AttrsAfterLevel0 ==
    /\ HasAttr(store, "multiscale") => ArrayComplete(0)
    /\ HasAttr(store, "scale_levels") =>
           HasAttr(store, "multiscale") /\ store.attrs["multiscale"]
    /\ (b.pc = "close" \/ berr.kind = "ok") /\ HasAttr(store, "scale_levels") =>
           \A k \in 1..StoredScaleLevels : ArrayComplete(k)

\* C2 witness: an interrupted build has left both attributes on a store that
\* lacks one of its downsampled levels
C2_Witness ==
    /\ b.pc = "idle"
    /\ berr.kind = "Interrupted"
    /\ HasAttr(store, "multiscale")
    /\ HasAttr(store, "scale_levels")
    /\ \E k \in 1..StoredScaleLevels : ~HasArray(store, k)

----------------------------------------------------------------------------
(* Properties of __getitem__.  req is the key of the call, res its effect. *)

Rank == Len(handle.shape)
Asked == handle.open /\ res.status # "none"
Implicit == Asked /\ Len(req) = Rank
Explicit == Asked /\ Len(req) = Rank + 1
AxisSels == SubSeq(req, 1, Rank)
Stepped(sel) == sel.t = "slice" /\ sel.step # None
AnyStepped == \E d \in 1..Rank : Stepped(req[d])
AnyScalar == \E d \in 1..Rank : req[d].t = "int"
RequestedLevel == req[Rank + 1]
ValidLevel ==
    /\ RequestedLevel.t = "int"
    /\ 0 <= RequestedLevel.i
    /\ RequestedLevel.i <= handle.scale_levels
InvalidLevelErrors == {"NotInteger", "NegativeLevel", "ExceedsLevels"}
StepRejected == res.status = "error" /\ res.err = "StepSlice"
LevelRejected == res.status = "error" /\ res.err \in InvalidLevelErrors

\* C3 (as stated): every query whose request has a stepped range selector
\* fails with the step error and reads nothing, in both forms.
C3_SteppedAlwaysRejected ==
    (Asked /\ Len(req) \in {Rank, Rank + 1} /\ AnyStepped) => StepRejected

\* C3 (amended): a query with a stepped range selector fails with the step
\* error, reading nothing, when it is an implicit-level request without a
\* scalar selector or an explicit-level request for a valid level >= 1.  An
\* implicit-level request with a scalar selector and an explicit-level
\* request for a valid level 0 read level 0 with the stepped selector passed
\* on unchanged; an explicit-level request for an invalid level fails with
\* the invalid-level error.
C3_SteppedRejectedWhenDownsampling ==
    (Asked /\ AnyStepped) =>
        /\ (Implicit /\ ~AnyScalar) => StepRejected
        /\ (Explicit /\ ValidLevel /\ RequestedLevel.i >= 1) => StepRejected
        /\ (Implicit /\ AnyScalar) =>
               res.status = "read" /\ res.level = 0 /\ res.sel = req
        /\ (Explicit /\ ValidLevel /\ RequestedLevel.i = 0) =>
               res.status = "read" /\ res.level = 0 /\ res.sel = AxisSels
        /\ (Explicit /\ ~ValidLevel) => LevelRejected

\* C3 witness: an explicit-level request for a level >= 1 with a stepped
\* selector was rejected with the step error
C3_Witness ==
    /\ Explicit
    /\ AnyStepped
    /\ ValidLevel
    /\ RequestedLevel.i >= 1
    /\ StepRejected

\* the span the claim gives a step-less range over an axis of the given extent
Span(sel, extent) ==
    (IF sel.stop = None THEN extent ELSE sel.stop[1])
        - (IF sel.start = None THEN 0 ELSE sel.start[1])
RequestSize ==
    LET spans == {Span(req[d], handle.shape[d]) : d \in 1..Rank}
    IN CHOOSE m \in spans : \A n \in spans : n <= m
Settles(L) == L = handle.scale_levels \/ RequestSize \div Pow2(L) <= CHUNK_SIZE \div 4

\* C4: for an implicit-level request of step-less ranges the resolved level is
\* the least L in 0..scale_levels with L = scale_levels or
\* floor(size / 2^L) <= chunk_size / 4.
C4_LeastSettlingLevel ==
    (Implicit /\ ~AnyScalar /\ ~AnyStepped) =>
        /\ res.auto # None
        /\ res.auto[1] \in 0..handle.scale_levels
        /\ Settles(res.auto[1])
        /\ \A L \in 0..(res.auto[1] - 1) : ~Settles(L)

\* the selector the claim gives for level L
DivOpt(o, L) == IF o = None THEN None ELSE <<o[1] \div Pow2(L)>>
RebasedTo(sel, L) ==
    IF sel.t = "int"
    THEN [sel EXCEPT !.i = sel.i \div Pow2(L)]
    ELSE [sel EXCEPT !.start = DivOpt(sel.start, L), !.stop = DivOpt(sel.stop, L)]
ChosenLevel == IF Len(req) = Rank THEN res.auto[1] ELSE RequestedLevel.i

\* C5: once a level L is chosen, the read uses the request's selectors rebased
\* to L (non-null range bounds and, in the explicit form, scalars become
\* floor(. / 2^L), null bounds stay null) and targets the array of level L.
C5_ReadIsRebased ==
    (Asked /\ res.status = "read" /\ ~res.bypass) =>
        /\ res.level = ChosenLevel
        /\ Len(res.sel) = Rank
        /\ \A d \in 1..Rank : res.sel[d] = RebasedTo(req[d], ChosenLevel)

\* C5 witness: with scale_levels 2, the range 0..4000 was read as 0..1000 of
\* level 2 and a null bound stayed null
C5_Witness ==
    /\ Implicit
    /\ handle.scale_levels = 2
    /\ res.status = "read"
    /\ res.level = 2
    /\ req[1] = Slice(Some(0), Some(4000), None)
    /\ res.sel[1] = Slice(Some(0), Some(1000), None)
    /\ req[2].stop = None
    /\ res.sel[2].stop = None

\* C6: an implicit-level request with a scalar selector reads level 0 with the
\* selectors as given, whatever scale_levels is.
C6_ScalarReadsLevel0 ==
    (Implicit /\ AnyScalar) =>
        /\ res.status = "read"
        /\ res.level = 0
        /\ res.sel = req

\* C6 witness: a scalar request read level 0 although the range 0..4000 on the
\* other axis alone would have resolved to a coarser level
C6_Witness ==
    /\ Implicit
    /\ handle.scale_levels >= 2
    /\ req[1] = Slice(Some(0), Some(4000), None)
    /\ req[2].t = "int"
    /\ res.status = "read"
    /\ res.level = 0

----------------------------------------------------------------------------
(* Properties of sequences of build calls *)

\* C8: a build call whose destination already exists fails with the
\* already-exists error before any mutation: from a state in which no build
\* is running and the store exists, no step changes the store or starts a
\* build, and a build call ends with that error.
C8_ExistingStoreUntouched ==
    [][(b.pc = "idle" /\ store.exists) =>
          /\ store' = store
          /\ b'.pc = "idle"
          /\ (berr' # berr => berr'.kind = "AlreadyExists")]_vars

\* C8 witness: a build call was refused on a store an earlier build had left
\* with its level-0 array but without attributes
C8_Witness ==
    /\ berr.kind = "AlreadyExists"
    /\ HasArray(store, 0)
    /\ ~HasAttr(store, "multiscale")

\* the z range the claim requires of a volume build
RequiredZRange(files, zlims) ==
    IF zlims = None THEN SetMin(files)..SetMax(files)
    ELSE (IF zlims[1] = None THEN 0 ELSE zlims[1][1])
            .. ((IF zlims[2] = None THEN SetMax(files) + 1 ELSE zlims[2][1]) - 1)
ZRangeDefined(files, zlims) == files # {} \/ (zlims # None /\ zlims[2] # None)
MissingSlices(files, zlims) == {z \in RequiredZRange(files, zlims) : z \notin files}

\* C9: a volume build fails with the missing-slice error naming a missing
\* index whenever an index of the required z range (the requested [zstart,
\* zstop), or min..max of the present indices without z limits) has no source
\* slice, and it fails before the store is created.
C9_MissingSliceReported ==
    /\ ( /\ berr.kind \in {"ValueError", "TypeError", "MissingImageFile"}
         /\ ZRangeDefined(berr.files, berr.zlims)
         /\ MissingSlices(berr.files, berr.zlims) # {} )
           => /\ berr.kind = "MissingImageFile"
              /\ berr.z \in MissingSlices(berr.files, berr.zlims)
              /\ ~store.exists
    /\ (b.kind = "volume" /\ b.pc \in {"open", "level0"})
           => MissingSlices(b.files, b.zlims) = {}

\* C10: level 0 is written first and the downsampled levels follow one at a
\* time in increasing order, each taken from level 0; a completed multiscale
\* build leaves exactly the arrays 0..scale_levels, a completed non-multiscale
\* build exactly level 0 with multiscale = false and no scale_levels.
C10_CompletedStoreLevels ==
    /\ store.exists =>
           \A k \in DOMAIN store.arrays :
               /\ \A j \in 0..(k - 1) : ArrayComplete(j)
               /\ k >= 1 => store.arrays[k].src = 0
    /\ berr.kind = "ok" =>
           IF store.attrs["multiscale"]
           THEN /\ DOMAIN store.arrays = 0..StoredScaleLevels
                /\ \A k \in DOMAIN store.arrays : ArrayComplete(k)
           ELSE /\ DOMAIN store.arrays = {0}
                /\ ArrayComplete(0)
                /\ DOMAIN store.attrs = {"multiscale"}

\* C11: on a handle opened on the store of a completed build, an
\* implicit-level request of step-less ranges auto-selects a level within
\* 0..scale_levels whose array is in the store, and is never refused with the
\* invalid-level error.
C11_AutoLevelExists ==
    (berr.kind = "ok" /\ Implicit /\ ~AnyScalar /\ ~AnyStepped) =>
        /\ res.auto # None
        /\ 0 <= res.auto[1]
        /\ res.auto[1] <= handle.scale_levels
        /\ HasArray(store, res.auto[1])
        /\ ~LevelRejected
        /\ res.status = "read"

====
